---- MODULE Spec2Model ----
(***************************************************************************)
(* Model of src/uuid6.py: the UUIDv6 encoder uuid6, the decoder            *)
(* uuid6_to_datetime, the module-level Sequence State and test_uuid6.      *)
(*                                                                         *)
(* Python integers are unbounded.  An integer that does not fit a machine  *)
(* word (timestamps, nodes, 128-bit identifiers) is a sequence of 16-bit   *)
(* limbs, least significant first, without high zero limbs; <<>> is 0.     *)
(* A character string is a sequence of one-character strings.              *)
(***************************************************************************)
EXTENDS Integers, Sequences, FiniteSets, TLC

Base == 2^16

Min(a, b) == IF a <= b THEN a ELSE b

(***************************************************************************)
(* Arithmetic of Python's int on non-negative values.                      *)
(***************************************************************************)
RECURSIVE Norm(_)
Norm(x) == IF x = <<>> THEN <<>>
           ELSE IF x[Len(x)] = 0 THEN Norm(SubSeq(x, 1, Len(x) - 1))
           ELSE x

ToBig(n) == Norm(<<n % Base, (n \div Base) % Base>>)

Limb(x, i) == IF i <= Len(x) THEN x[i] ELSE 0

RECURSIVE AddC(_, _, _)
AddC(x, y, c) ==
    IF x = <<>> /\ y = <<>> THEN (IF c = 0 THEN <<>> ELSE <<c>>)
    ELSE LET s == Limb(x, 1) + Limb(y, 1) + c
         IN  <<s % Base>> \o AddC(Tail(IF x = <<>> THEN <<0>> ELSE x),
                                  Tail(IF y = <<>> THEN <<0>> ELSE y),
                                  s \div Base)

\* x + y
Add(x, y) == Norm(AddC(x, y, 0))

RECURSIVE SubB(_, _, _)
SubB(x, y, b) ==
    IF x = <<>> THEN <<>>
    ELSE LET d == x[1] - Limb(y, 1) - b
         IN  <<d % Base>> \o SubB(Tail(x),
                                  Tail(IF y = <<>> THEN <<0>> ELSE y),
                                  IF d < 0 THEN 1 ELSE 0)

RECURSIVE CmpFrom(_, _, _)
CmpFrom(x, y, i) ==
    IF i = 0 THEN 0
    ELSE IF x[i] < y[i] THEN -1
    ELSE IF x[i] > y[i] THEN 1
    ELSE CmpFrom(x, y, i - 1)

Cmp(x, y) == IF Len(x) < Len(y) THEN -1
             ELSE IF Len(x) > Len(y) THEN 1
             ELSE CmpFrom(x, y, Len(x))

Lt(x, y) == Cmp(x, y) < 0
Le(x, y) == Cmp(x, y) <= 0

\* x - y, for x >= y
Sub(x, y) == Norm(SubB(x, y, 0))

RECURSIVE MulC(_, _, _)
MulC(x, m, c) ==
    IF x = <<>> THEN (IF c = 0 THEN <<>> ELSE <<c>>)
    ELSE LET p == x[1] * m + c
         IN  <<p % Base>> \o MulC(Tail(x), m, p \div Base)

\* x * m, for 0 <= m < 2^15
MulSmall(x, m) == Norm(MulC(x, m, 0))

\* long division by a small divisor, from the most significant limb:
\* the pair <<quotient limbs, remainder>>
RECURSIVE DivR(_, _, _)
DivR(x, d, i) ==
    IF i > Len(x) THEN <<<<>>, 0>>
    ELSE LET hi  == DivR(x, d, i + 1)
             cur == hi[2] * Base + x[i]
         IN  <<<<cur \div d>> \o hi[1], cur % d>>

\* x // d and x % d, for 0 < d < 2^15
DivSmall(x, d) == Norm(DivR(x, d, 1)[1])
ModSmall(x, d) == DivR(x, d, 1)[2]

Zeros(n) == [i \in 1..n |-> 0]

\* x << k
Shl(x, k) == IF x = <<>> THEN <<>>
             ELSE Zeros(k \div 16) \o MulSmall(x, 2^(k % 16))

\* x >> k
Shr(x, k) == IF Len(x) <= k \div 16 THEN <<>>
             ELSE DivSmall(SubSeq(x, (k \div 16) + 1, Len(x)), 2^(k % 16))

RECURSIVE AndLimb(_, _, _)
AndLimb(a, b, n) ==
    IF n = 0 THEN 0
    ELSE (IF a % 2 = 1 /\ b % 2 = 1 THEN 1 ELSE 0)
         + 2 * AndLimb(a \div 2, b \div 2, n - 1)

\* x & y
BitAnd(x, y) == Norm([i \in 1..Min(Len(x), Len(y)) |-> AndLimb(x[i], y[i], 16)])


(***************************************************************************)
(* Python values.  Optional[T] is None (the empty tuple) or Some(v).       *)
(* An object that uuid6 returns or uuid6_to_datetime accepts is a record   *)
(* [type, int, str]: an int, a str or a uuid.UUID (whose state is its int).*)
(***************************************************************************)
None == <<>>
Some(v) == <<v>>
IsNone(o) == o = <<>>
Val(o) == o[1]

PyInt(x)  == [type |-> "int",  int |-> x,    str |-> <<>>]
PyStr(s)  == [type |-> "str",  int |-> <<>>, str |-> s]
PyUUID(x) == [type |-> "UUID", int |-> x,    str |-> <<>>]
NoValue   == [type |-> "None", int |-> <<>>, str |-> <<>>]

\* a signed integer: ts_ns may lie before 1970
Pos(m) == [neg |-> FALSE, mag |-> m]
Neg(m) == [neg |-> m # <<>>, mag |-> m]

(***************************************************************************)
(* uuid6, lines 21-90                                                      *)
(***************************************************************************)
uuid_version == 6
uuid_variant == 2

\* 0x01b21dd213814000: the 100-ns ticks from 1582-10-15 to 1970-01-01
GregorianOffset == <<16384, 4993, 7634, 434>>

\* lines 51-58: as_of is a record [kind, ns], ns being the integer that the
\* conversion int(as_of * 1_000_000_000) of that value yields; with as_of
\* None the clock reading time.time_ns() is used
AsOfRecognized(as_of) == as_of.kind \in {"None", "datetime", "float"}
TsNs(as_of, clock) == IF as_of.kind = "None" THEN clock ELSE as_of.ns

\* ts_ns // 100 rounds towards minus infinity
FloorDiv100(n) ==
    IF n.neg
    THEN Neg(Add(DivSmall(n.mag, 100), IF ModSmall(n.mag, 100) = 0 THEN <<>> ELSE <<1>>))
    ELSE Pos(DivSmall(n.mag, 100))

\* line 59, for instants from 1582-10-15 on (time_val >= 0)
TimeVal(ts_ns) ==
    LET q == FloorDiv100(ts_ns)
    IN  IF q.neg THEN Sub(GregorianOffset, q.mag) ELSE Add(q.mag, GregorianOffset)

\* variants of the sequence rule: a strict comparison; the sequence reset
\* when the timestamp advances; the timestamp rule applied before seq
NewSeqStrict(seq, last_seq, last_time, time_val, rand14) ==
    IF ~IsNone(seq) THEN seq
    ELSE IF IsNone(last_seq) THEN Some(rand14)
    ELSE IF Lt(time_val, last_time) THEN Some(Val(last_seq) + 1)
    ELSE last_seq

NewSeqResetOnAdvance(seq, last_seq, last_time, time_val, rand14) ==
    IF ~IsNone(seq) THEN seq
    ELSE IF IsNone(last_seq) THEN Some(rand14)
    ELSE IF Le(time_val, last_time) THEN Some(Val(last_seq) + 1)
    ELSE Some(0)

NewSeqTimeFirst(seq, last_seq, last_time, time_val, rand14) ==
    IF IsNone(last_seq) THEN Some(rand14)
    ELSE IF Le(time_val, last_time) THEN Some(Val(last_seq) + 1)
    ELSE IF ~IsNone(seq) THEN seq
    ELSE last_seq

NewSeqKeepOnExplicit(seq, last_seq, last_time, time_val, rand14) ==
    IF ~IsNone(seq) THEN (IF Le(time_val, last_time) THEN Some(Val(seq) + 1) ELSE seq)
    ELSE IF IsNone(last_seq) THEN Some(rand14)
    ELSE IF Le(time_val, last_time) THEN Some(Val(last_seq) + 1)
    ELSE last_seq

\* lines 61-66: the value of _last_uuid_v6_seq after the sequence rule
NewSeq(seq, last_seq, last_time, time_val, rand14) ==
    IF ~IsNone(seq) THEN seq
    ELSE IF IsNone(last_seq) THEN Some(rand14)
    ELSE IF Le(time_val, last_time) THEN Some(Val(last_seq) + 1)
    ELSE last_seq

\* line 70
Mask48 == Sub(Shl(<<1>>, 48), <<1>>)
\* variant: the seed taken as the node without the mask
NodeOfUnmasked(seed, rand48) == IF IsNone(seed) THEN rand48 ELSE Val(seed)

NodeOf(seed, rand48) == IF IsNone(seed) THEN rand48 ELSE BitAnd(Val(seed), Mask48)

\* line 77: _last_uuid_v6_seq & 16383
SeqField(stored) == BitAnd(ToBig(stored), <<16383>>)

\* variant of the packing: the sequence not masked
PackSeqUnmasked(time_val, stored_seq, node) ==
    LET v1 == Shr(time_val, 12)
        v2 == Add(Shl(v1, 4), ToBig(uuid_version))
        v3 == Add(Shl(v2, 12), BitAnd(time_val, <<4095>>))
        v4 == Add(Shl(v3, 2), ToBig(uuid_variant))
        v5 == Add(Shl(v4, 14), ToBig(stored_seq))
    IN  Add(Shl(v5, 48), node)

\* variant of the packing: the 12 low timestamp bits left out
PackNoTimeLow(time_val, stored_seq, node) ==
    LET v1 == Shr(time_val, 12)
        v2 == Add(Shl(v1, 4), ToBig(uuid_version))
        v3 == Shl(v2, 12)
        v4 == Add(Shl(v3, 2), ToBig(uuid_variant))
        v5 == Add(Shl(v4, 14), SeqField(stored_seq))
    IN  Add(Shl(v5, 48), node)

\* variant of the packing: the version placed below time_low
PackVersionAfterTimeLow(time_val, stored_seq, node) ==
    LET v1 == Shr(time_val, 12)
        v2 == Add(Shl(v1, 12), BitAnd(time_val, <<4095>>))
        v3 == Add(Shl(v2, 4), ToBig(uuid_version))
        v4 == Add(Shl(v3, 2), ToBig(uuid_variant))
        v5 == Add(Shl(v4, 14), SeqField(stored_seq))
    IN  Add(Shl(v5, 48), node)

\* lines 73-78
Pack(time_val, stored_seq, node) ==
    LET v1 == Shr(time_val, 12)
        v2 == Add(Shl(v1, 4), ToBig(uuid_version))
        v3 == Add(Shl(v2, 12), BitAnd(time_val, <<4095>>))
        v4 == Add(Shl(v3, 2), ToBig(uuid_variant))
        v5 == Add(Shl(v4, 14), SeqField(stored_seq))
    IN  Add(Shl(v5, 48), node)

(***************************************************************************)
(* Rendering, lines 80-90, and the str/int conversions of Python           *)
(***************************************************************************)
HexChars == <<"0", "1", "2", "3", "4", "5", "6", "7",
              "8", "9", "a", "b", "c", "d", "e", "f">>

\* the four hex digits of one limb, most significant first
LimbHex(l) == <<HexChars[(l \div 4096) + 1], HexChars[((l \div 256) % 16) + 1],
                HexChars[((l \div 16) % 16) + 1], HexChars[(l % 16) + 1]>>

RECURSIVE AllHex(_)
AllHex(x) == IF x = <<>> THEN <<>> ELSE AllHex(Tail(x)) \o LimbHex(Head(x))

RECURSIVE StripZeros(_)
StripZeros(s) == IF Len(s) > 1 /\ s[1] = "0" THEN StripZeros(Tail(s)) ELSE s

\* f"{x:x}": the hex digits of x without leading zeros
HexOf(x) == IF x = <<>> THEN <<"0">> ELSE StripZeros(AllHex(x))

\* variant: no zero padding
Hex032NoPad(x) == HexOf(x)

\* line 86, f"{int_val:032x}": zero-padded to a width of at least 32
Hex032(x) == LET h == HexOf(x)
             IN  [i \in 1..(32 - Len(h)) |-> "0"] \o h

\* Python slice s[a:b], 0-based, clamped to the string
Slice(s, a, b) == SubSeq(s, a + 1, Min(b, Len(s)))

\* line 90, and str() of a uuid.UUID
Dashed(h) == Slice(h, 0, 8) \o <<"-">> \o Slice(h, 8, 12) \o <<"-">>
             \o Slice(h, 12, 16) \o <<"-">> \o Slice(h, 16, 20) \o <<"-">>
             \o Slice(h, 20, Len(h))

\* line 82, uuid.UUID(int=x) accepts 0 <= x < 1 << 128 only
UUIDInRange(x) == Lt(x, Shl(<<1>>, 128))

\* lines 81-90: the object returned for fmt, NoValue when uuid.UUID raises
Render(fmt, int_val) ==
    IF fmt = "uuid" THEN (IF UUIDInRange(int_val) THEN PyUUID(int_val) ELSE NoValue)
    ELSE IF fmt = "int" THEN PyInt(int_val)
    ELSE IF fmt = "hex" THEN PyStr(Hex032(int_val))
    ELSE PyStr(Dashed(Hex032(int_val)))

\* s.replace('-', '')
NoDashes(s) == SelectSeq(s, LAMBDA c : c # "-")

HexDigit(c) == (CHOOSE i \in 1..16 : HexChars[i] = c) - 1

\* the digit of s that has weight 16^k, 0 beyond the string
DigitAt(s, k) == IF k < Len(s) THEN HexDigit(s[Len(s) - k]) ELSE 0

\* int(s, base=16) of a string of lowercase hex digits: limb i collects
\* the digits of weight 16^(4i-4) .. 16^(4i-1)
ParseHex(s) ==
    Norm([i \in 1..((Len(s) + 3) \div 4) |->
            DigitAt(s, 4 * i - 4) + 16 * DigitAt(s, 4 * i - 3)
            + 256 * DigitAt(s, 4 * i - 2) + 4096 * DigitAt(s, 4 * i - 1)])

(***************************************************************************)
(* uuid6_to_datetime, lines 93-123                                         *)
(***************************************************************************)
\* lines 106-111
ToInt(s) == IF s.type = "UUID" THEN s.int
            ELSE IF s.type = "str" THEN ParseHex(NoDashes(s.str))
            ELSE s.int

\* variant: the nibble below the version field is read
VersionOfShift72(x) == LET v == BitAnd(Shr(x, 72), <<15>>)
                       IN  IF v = <<>> THEN 0 ELSE v[1]

\* line 113: (x >> 76) & 15; the result is a machine-size number
VersionOf(x) == LET v == BitAnd(Shr(x, 76), <<15>>)
                IN  IF v = <<>> THEN 0 ELSE v[1]

\* variant: time_low masked to 8 bits
DecodedTimeValMask255(x) == Add(Shl(Shr(x, 80), 12), BitAnd(Shr(x, 64), <<255>>))

\* line 120
DecodedTimeVal(x) == Add(Shl(Shr(x, 80), 12), BitAnd(Shr(x, 64), <<4095>>))

\* lines 114-123: what the call does, "datetime" standing for the instant
\* computed from time_val by lines 121-123
DecodeOutcome(x, suppress_uuid_version_error) ==
    IF VersionOf(x) # 6
    THEN (IF suppress_uuid_version_error THEN "None" ELSE "ValueError")
    ELSE "datetime"

(***************************************************************************)
(* Field extraction from a 128-bit identifier, per the layout of line 45   *)
(***************************************************************************)
SeqFieldOf(x)  == LET f == BitAnd(Shr(x, 48), <<16383>>)
                  IN  IF f = <<>> THEN 0 ELSE f[1]
NodeFieldOf(x) == BitAnd(x, Mask48)
VariantOf(x)   == LET f == BitAnd(Shr(x, 62), <<3>>)
                  IN  IF f = <<>> THEN 0 ELSE f[1]
Fits60(t)      == Lt(t, Shl(<<1>>, 60))

(***************************************************************************)
(* Inputs                                                                  *)
(***************************************************************************)
AsOf(kind, ns) == [kind |-> kind, ns |-> ns]

ANone == AsOf("None", Pos(<<>>))           \* as_of=None: the clock is read
ABad  == AsOf("other", Pos(<<>>))          \* as_of="x", or an int: not recognized
F0    == AsOf("float", Pos(<<>>))          \* 0.0
F50   == AsOf("float", Pos(<<50>>))        \* 5e-08, in the tick of 0.0
F100  == AsOf("float", Pos(<<100>>))       \* 1e-07, the next tick
\* datetime(2020, 11, 10, 2, 41, 42, 182162): ts_ns = 1604976102182161920
D2020 == AsOf("datetime", Pos(<<3584, 60303, 1346, 5702>>))
\* -12219292800.0, i.e. 1582-10-15T00:00:00Z: time_val = 0
FGreg == AsOf("float", Neg(<<0, 40573, 42511, 43411>>))
\* 103072857660.68468 (year 5236): time_val = 0xfffffffffffff5c < 2^60
FTop  == AsOf("float", Pos(<<49152, 24962, 23024, 38508, 5>>))
\* datetime(5300, 1, 1): time_val = 0x10477984fa94c000 >= 2^60
D5300 == AsOf("datetime", Pos(<<0, 17310, 53730, 45655, 5>>))

\* a reading of time.time_ns(): 1604976102182162050, in 2020
Clock2020 == Pos(<<3714, 60303, 1346, 5702>>)

Node1    == <<62597, 51886, 56724>>        \* 0xdd94caaef485
Node2    == <<28719, 21041, 36293>>        \* 0x8dc55231702f
SeedWide == <<28719, 21041, 36293, 1>>     \* 0x18dc55231702f, wider than 48 bits

AllFmts == {"int", "hex", "str", "uuid"}

(***************************************************************************)
(* State                                                                   *)
(***************************************************************************)
VARIABLES
    last_uuid_v6_time,   \* _last_uuid_v6_time, line 17
    last_uuid_v6_seq,    \* _last_uuid_v6_seq, line 18 (an Optional int)
    hist,                \* the uuid6 calls made so far, with their outcomes
    dec,                 \* the last uuid6_to_datetime call, with its outcome
    test,                \* the activation of test_uuid6: its pc and locals
    thr,                 \* the uuid6 calls running in threads: pc and locals
    serialized           \* whether the callers serialize their uuid6 calls

vars == <<last_uuid_v6_time, last_uuid_v6_seq, hist, dec, test, thr, serialized>>

\* the part of the state that only threaded callers use
concvars == <<thr, serialized>>

Threads == {1, 2}

IdleThread == [pc |-> "idle", as_of |-> ANone, time_val |-> <<>>,
               loaded |-> 0, int_val |-> <<>>]

NoThreads == [t \in Threads |-> IdleThread]

NoDec == [s |-> NoValue, suppress |-> TRUE, outcome |-> "none",
          version |-> 0, time_val |-> <<>>]

NoTest == [pc |-> "idle", now |-> ANone, seed |-> <<>>, seq |-> 0,
           out1 |-> NoValue, out2 |-> NoValue, out3 |-> NoValue, out4 |-> NoValue,
           asserts |-> "none"]

\* lines 17-18, and nothing called yet
Init ==
    /\ last_uuid_v6_time = <<>>
    /\ last_uuid_v6_seq = Some(0)
    /\ hist = <<>>
    /\ dec = NoDec
    /\ test = NoTest
    /\ thr = NoThreads
    /\ serialized = FALSE

(***************************************************************************)
(* uuid6(fmt, as_of, seed, seq), lines 21-90, as one step                  *)
(***************************************************************************)
\* variant: seq stored before as_of is examined
Uuid6RecordSeqFirst(fmt, as_of, seed, seq, clock, rand14, rand48) ==
    LET time_val == TimeVal(TsNs(as_of, clock))
        new_seq  == NewSeq(seq, last_uuid_v6_seq, last_uuid_v6_time, time_val, rand14)
        int_val  == Pack(time_val, Val(new_seq), NodeOf(seed, rand48))
        ret      == Render(fmt, int_val)
        args     == [fmt |-> fmt, as_of |-> as_of, seed |-> seed, seq |-> seq,
                     pre_time |-> last_uuid_v6_time, pre_seq |-> last_uuid_v6_seq]
    IN  IF ~AsOfRecognized(as_of)
        THEN args @@ [exc |-> "Unexpected value for as_of",
                      time_val |-> <<>>, int_val |-> <<>>, ret |-> NoValue,
                      post_time |-> last_uuid_v6_time,
                      post_seq |-> IF IsNone(seq) THEN last_uuid_v6_seq ELSE seq]
        ELSE args @@ [exc |-> IF ret = NoValue THEN "int is out of range" ELSE "none",
                      time_val |-> time_val, int_val |-> int_val, ret |-> ret,
                      post_time |-> time_val, post_seq |-> new_seq]

\* the record of one call made in the current state: arguments, Sequence
\* State before and after, locals time_val and int_val, the object
\* returned (NoValue when the call raises) and the exception raised
Uuid6Record(fmt, as_of, seed, seq, clock, rand14, rand48) ==
    LET time_val == TimeVal(TsNs(as_of, clock))
        new_seq  == NewSeq(seq, last_uuid_v6_seq, last_uuid_v6_time, time_val, rand14)
        int_val  == Pack(time_val, Val(new_seq), NodeOf(seed, rand48))
        ret      == Render(fmt, int_val)
        args     == [fmt |-> fmt, as_of |-> as_of, seed |-> seed, seq |-> seq,
                     pre_time |-> last_uuid_v6_time, pre_seq |-> last_uuid_v6_seq]
    IN  IF ~AsOfRecognized(as_of)
        THEN args @@ [exc |-> "Unexpected value for as_of",
                      time_val |-> <<>>, int_val |-> <<>>, ret |-> NoValue,
                      post_time |-> last_uuid_v6_time, post_seq |-> last_uuid_v6_seq]
        ELSE args @@ [exc |-> IF ret = NoValue THEN "int is out of range" ELSE "none",
                      time_val |-> time_val, int_val |-> int_val, ret |-> ret,
                      post_time |-> time_val, post_seq |-> new_seq]

\* variant: the last-seen timestamp kept at the maximum seen
Uuid6EffectMaxTime(c) ==
    /\ last_uuid_v6_time' = IF Lt(c.post_time, last_uuid_v6_time)
                            THEN last_uuid_v6_time ELSE c.post_time
    /\ last_uuid_v6_seq' = c.post_seq
    /\ hist' = Append(hist, c)

Uuid6Effect(c) ==
    /\ last_uuid_v6_time' = c.post_time
    /\ last_uuid_v6_seq' = c.post_seq
    /\ hist' = Append(hist, c)

\* the values the call draws from its environment, where it draws them
ClockFor(as_of, Clocks) == IF as_of.kind = "None" THEN Clocks ELSE {Pos(<<>>)}
Rand48For(seed, Rand48) == IF IsNone(seed) THEN Rand48 ELSE {<<>>}
Rand14For(seq, Rand14)  == IF IsNone(seq) /\ IsNone(last_uuid_v6_seq) THEN Rand14 ELSE {0}

ClockValues  == {Clock2020}
Rand48Values == {Node2}
Rand14Values == {0, 16383}

\* one call of uuid6 with arguments from the given sets, while fewer than
\* limit calls are on record
Uuid6Step(Fmts, AsOfs, Seeds, Seqs, limit) ==
    /\ test.pc = "idle"
    /\ Len(hist) < limit
    /\ \E fmt \in Fmts, as_of \in AsOfs, seed \in Seeds, seq \in Seqs :
         \E clock \in ClockFor(as_of, ClockValues),
            rand14 \in Rand14For(seq, Rand14Values),
            rand48 \in Rand48For(seed, Rand48Values) :
              Uuid6Effect(Uuid6Record(fmt, as_of, seed, seq, clock, rand14, rand48))
    /\ UNCHANGED <<dec, test, concvars>>

(***************************************************************************)
(* uuid6_to_datetime(s, suppress_uuid_version_error), lines 93-123         *)
(***************************************************************************)
Uuid6ToDatetimeRecord(s, suppress) ==
    LET x == ToInt(s)
        outcome == DecodeOutcome(x, suppress)
    IN  [s |-> s, suppress |-> suppress, outcome |-> outcome,
         version |-> VersionOf(x),
         time_val |-> IF outcome = "datetime" THEN DecodedTimeVal(x) ELSE <<>>]

\* the objects uuid6 has returned so far
Returned == {hist[i].ret : i \in {j \in DOMAIN hist : hist[j].ret # NoValue}}

\* variant: the decoder keeps the timestamp it decoded as the last-seen one
Uuid6ToDatetimeStepStoresTime(Values) ==
    /\ test.pc = "idle"
    /\ \E s \in Values \cup Returned, suppress \in BOOLEAN :
         dec' = Uuid6ToDatetimeRecord(s, suppress)
    /\ last_uuid_v6_time' = IF dec'.outcome = "datetime"
                            THEN dec'.time_val ELSE last_uuid_v6_time
    /\ UNCHANGED <<last_uuid_v6_seq, hist, test, concvars>>

Uuid6ToDatetimeStep(Values) ==
    /\ test.pc = "idle"
    /\ \E s \in Values \cup Returned, suppress \in BOOLEAN :
         dec' = Uuid6ToDatetimeRecord(s, suppress)
    /\ UNCHANGED <<last_uuid_v6_time, last_uuid_v6_seq, hist, test, concvars>>

(***************************************************************************)
(* Spec: sequences of uuid6 calls from the state after import              *)
(***************************************************************************)
MaxCalls == 3

SeqAsOfs == {F0, F50, F100}
SeqSeeds == {None, Some(Node1)}
SeqSeqs  == {None, Some(16383), Some(20000)}

Uuid6 == Uuid6Step({"int"}, SeqAsOfs, SeqSeeds, SeqSeqs, MaxCalls)

Next == Uuid6

Spec == Init /\ [][Next]_vars

(***************************************************************************)
(* Vocabulary of the properties                                            *)
(***************************************************************************)
Calls == DOMAIN hist
Ok(i) == hist[i].exc = "none"
Supplied(o) == ~IsNone(o)
Instant(a) == a.kind \in {"datetime", "float"}

\* a < b on signed integers
SignedLt(a, b) ==
    IF a.neg /\ ~b.neg THEN TRUE
    ELSE IF ~a.neg /\ b.neg THEN FALSE
    ELSE IF a.neg THEN Lt(b.mag, a.mag)
    ELSE Lt(a.mag, b.mag)

SameSeed(i, j) == Supplied(hist[i].seed) /\ hist[i].seed = hist[j].seed

(***************************************************************************)
(* C2 (as stated): for two instants T1 < T2 and the same seed, the         *)
(* identifier of T1 is below the identifier of T2, whichever call comes    *)
(* first and also when both instants fall in one 100-ns tick.              *)
(***************************************************************************)
C2_OrderingByInstant ==
    \A i, j \in Calls :
        ( /\ i # j /\ Ok(i) /\ Ok(j)
          /\ Instant(hist[i].as_of) /\ Instant(hist[j].as_of)
          /\ SignedLt(hist[i].as_of.ns, hist[j].as_of.ns)
          /\ SameSeed(i, j)
          /\ IsNone(hist[i].seq) /\ IsNone(hist[j].seq) )
        => Lt(hist[i].int_val, hist[j].int_val)

(***************************************************************************)
(* C2 (amended): for two instants T1 < T2 that fall in different 100-ns    *)
(* ticks and the same seed, the identifier of T1 is below the identifier   *)
(* of T2, whatever the Sequence State, the seq arguments and the order of  *)
(* the two calls.                                                          *)
(***************************************************************************)
C2_OrderingByTick ==
    \A i, j \in Calls :
        ( /\ i # j /\ Ok(i) /\ Ok(j)
          /\ Lt(hist[i].time_val, hist[j].time_val)
          /\ SameSeed(i, j) )
        => Lt(hist[i].int_val, hist[j].int_val)

\* the later instant was encoded first, from a Sequence State other than
\* the initial one, and both calls derived their sequence
C2_Witness ==
    \E i, j \in Calls :
        /\ i < j /\ Ok(i) /\ Ok(j) /\ SameSeed(i, j)
        /\ IsNone(hist[i].seq) /\ IsNone(hist[j].seq)
        /\ hist[i].pre_time # <<>>
        /\ Lt(hist[j].time_val, hist[i].time_val)
        /\ SeqFieldOf(hist[j].int_val) > SeqFieldOf(hist[i].int_val)
        /\ Lt(hist[j].int_val, hist[i].int_val)

(***************************************************************************)
(* C3 (as stated): two calls in immediate succession with the same as_of   *)
(* and seed and no seq return identifiers whose sequence fields satisfy    *)
(* second = first + 1, with equal timestamp and node fields.               *)
(***************************************************************************)
Successive(i, j) ==
    /\ j = i + 1 /\ Ok(i) /\ Ok(j)
    /\ Instant(hist[i].as_of) /\ hist[i].as_of = hist[j].as_of
    /\ SameSeed(i, j)
    /\ IsNone(hist[i].seq) /\ IsNone(hist[j].seq)

SameTimeAndNode(i, j) ==
    /\ DecodedTimeVal(hist[i].int_val) = DecodedTimeVal(hist[j].int_val)
    /\ NodeFieldOf(hist[i].int_val) = NodeFieldOf(hist[j].int_val)

C3_SuccessivePlusOne ==
    \A i, j \in Calls :
        Successive(i, j)
        => /\ SeqFieldOf(hist[j].int_val) = SeqFieldOf(hist[i].int_val) + 1
           /\ SameTimeAndNode(i, j)

(***************************************************************************)
(* C3 (amended): ... return identifiers whose sequence fields satisfy      *)
(* second = (first + 1) mod 2^14 (16383 is followed by 0), with equal      *)
(* timestamp and node fields.                                              *)
(***************************************************************************)
C3_SuccessivePlusOneMod ==
    \A i, j \in Calls :
        Successive(i, j)
        => /\ SeqFieldOf(hist[j].int_val) = (SeqFieldOf(hist[i].int_val) + 1) % 16384
           /\ SameTimeAndNode(i, j)

\* a successive pair whose first call left the sequence as it found it
\* (its tick was ahead of the last-seen one) and whose second call wraps
C3_Witness ==
    \E i, j \in Calls :
        /\ Successive(i, j)
        /\ hist[i].post_seq = hist[i].pre_seq
        /\ SeqFieldOf(hist[i].int_val) = 16383
        /\ SeqFieldOf(hist[j].int_val) = 0

(***************************************************************************)
(* C4 (as stated): for any two calls i < j that embed the same tick, the   *)
(* sequence field of call j is strictly greater than that of call i.       *)
(***************************************************************************)
SameTick(i, j) == Ok(i) /\ Ok(j) /\ hist[i].time_val = hist[j].time_val

C4_IncreasingPerTick ==
    \A i, j \in Calls :
        (i < j /\ SameTick(i, j))
        => SeqFieldOf(hist[j].int_val) > SeqFieldOf(hist[i].int_val)

(***************************************************************************)
(* C4 (amended): for any two calls i < j that embed the same tick, the     *)
(* sequence field of call j is strictly greater than that of call i,       *)
(* provided that no call after i up to and including j supplies seq and    *)
(* that the stored sequence does not pass a multiple of 2^14 between them  *)
(* (the 14-bit field wraps from 16383 to 0).                               *)
(***************************************************************************)
NoSeqBetween(i, j) == \A k \in (i + 1)..j : IsNone(hist[k].seq)
NoWrapBetween(i, j) ==
    Val(hist[i].post_seq) \div 16384 = Val(hist[j].post_seq) \div 16384

C4_IncreasingPerTickDerived ==
    \A i, j \in Calls :
        (i < j /\ SameTick(i, j) /\ NoSeqBetween(i, j) /\ NoWrapBetween(i, j))
        => SeqFieldOf(hist[j].int_val) > SeqFieldOf(hist[i].int_val)

\* two calls at one tick with a call at a later tick between them
C4_Witness ==
    \E i, j \in Calls :
        /\ j = i + 2 /\ SameTick(i, j) /\ NoSeqBetween(i, j) /\ NoWrapBetween(i, j)
        /\ Ok(i + 1) /\ Lt(hist[i].time_val, hist[i + 1].time_val)
        /\ SeqFieldOf(hist[j].int_val) = SeqFieldOf(hist[i].int_val) + 1

(***************************************************************************)
(* C8 (as stated): a call with seq supplied returns an identifier whose    *)
(* sequence field is seq masked to 14 bits, whatever the stored sequence   *)
(* and the last-seen timestamp, and stores seq as the process-wide         *)
(* sequence; a call without seq that follows immediately has sequence      *)
(* field seq + 1 when its tick is the same or earlier and seq when its     *)
(* tick is later.                                                          *)
(***************************************************************************)
ExplicitSeqTaken(i) ==
    /\ SeqFieldOf(hist[i].int_val) = Val(hist[i].seq) % 16384
    /\ hist[i].post_seq = hist[i].seq
    /\ (i = Len(hist) => last_uuid_v6_seq = hist[i].seq)

FollowsExplicit(i) ==
    /\ Ok(i) /\ Supplied(hist[i].seq)
    /\ i + 1 \in Calls /\ Ok(i + 1) /\ IsNone(hist[i + 1].seq)

C8_ExplicitSeqThenPlusOne ==
    \A i \in Calls :
        /\ (Ok(i) /\ Supplied(hist[i].seq)) => ExplicitSeqTaken(i)
        /\ FollowsExplicit(i)
           => SeqFieldOf(hist[i + 1].int_val) =
                 IF Le(hist[i + 1].time_val, hist[i].time_val)
                 THEN Val(hist[i].seq) + 1
                 ELSE Val(hist[i].seq)

(***************************************************************************)
(* C8 (amended): ... a call without seq that follows immediately has       *)
(* sequence field (seq + 1) mod 2^14 when its tick is the same or earlier  *)
(* and seq mod 2^14 when its tick is later.                                *)
(***************************************************************************)
C8_ExplicitSeq ==
    \A i \in Calls :
        /\ (Ok(i) /\ Supplied(hist[i].seq)) => ExplicitSeqTaken(i)
        /\ FollowsExplicit(i)
           => SeqFieldOf(hist[i + 1].int_val) =
                 IF Le(hist[i + 1].time_val, hist[i].time_val)
                 THEN (Val(hist[i].seq) + 1) % 16384
                 ELSE Val(hist[i].seq) % 16384

\* seq = 16383 supplied at a tick not after the last-seen one, over a
\* different stored sequence, and followed by a call without seq at the
\* same or an earlier tick
C8_Witness ==
    \E i \in Calls :
        /\ FollowsExplicit(i)
        /\ hist[i].pre_seq # hist[i].seq
        /\ Le(hist[i].time_val, hist[i].pre_time)
        /\ Le(hist[i + 1].time_val, hist[i].time_val)
        /\ Val(hist[i].seq) = 16383
        /\ SeqFieldOf(hist[i + 1].int_val) = 0

(***************************************************************************)
(* C9: with as_of, seed and seq all supplied, the identifier is a function *)
(* of these three arguments: calls made from different Sequence States     *)
(* with the same three arguments return the same 128-bit value.            *)
(***************************************************************************)
SameArgs(i, j) ==
    /\ Ok(i) /\ Ok(j)
    /\ Instant(hist[i].as_of) /\ hist[i].as_of = hist[j].as_of
    /\ SameSeed(i, j)
    /\ Supplied(hist[i].seq) /\ hist[i].seq = hist[j].seq

MaxDecCalls == 1

\* the state after import; the state after uuid6(as_of=103072857660.68468,
\* seq=16383)
PriorStates == { <<<<>>, Some(0)>>, <<TimeVal(FTop.ns), Some(16383)>> }

InitDec ==
    /\ \E p \in PriorStates : last_uuid_v6_time = p[1] /\ last_uuid_v6_seq = p[2]
    /\ hist = <<>>
    /\ dec = NoDec
    /\ test = NoTest
    /\ thr = NoThreads
    /\ serialized = FALSE

DecAsOfs == {ANone, FGreg, D2020, FTop, D5300, ABad}
DecSeeds == {Some(SeedWide)}
DecSeqs  == {None, Some(20000)}

\* identifiers that uuid6 did not make: a version 4 UUID as a dashed string,
\* uuid.NAMESPACE_DNS (version 1) as a UUID object, a version 7 UUID as a
\* plain hex string, and the integer 0
V4Str  == PyStr(<<"f","4","7","a","c","1","0","b","-","5","8","c","c","-",
                  "4","3","7","2","-","a","5","6","7","-",
                  "0","e","0","2","b","2","c","3","d","4","7","9">>)
V1UUID == PyUUID(<<12488, 20436, 192, 32948, 4561, 40365, 47120, 27559>>)
V7Hex  == PyStr(<<"0","1","8","f","3","c","2","a","9","b","7","e","7","c","d","1",
                  "8","a","2","b","4","e","6","f","a","1","b","2","c","3","d","4">>)
Int0   == PyInt(<<>>)

ForeignValues == {V4Str, V1UUID, V7Hex, Int0}

Uuid6Dec == Uuid6Step(AllFmts, DecAsOfs, DecSeeds, DecSeqs, MaxDecCalls)

Uuid6ToDatetime == Uuid6ToDatetimeStep(ForeignValues)

NextDec == Uuid6Dec \/ Uuid6ToDatetime

SpecDec == InitDec /\ [][NextDec]_vars

(***************************************************************************)
(* The version digit of an identifier as handed about: the hex digit of    *)
(* weight 16^19 (bits 76-79) in its written form                           *)
(***************************************************************************)
Written(v) == IF v.type = "str" THEN NoDashes(v.str) ELSE HexOf(v.int)
VersionDigit(v) == DigitAt(Written(v), 19)

DecodedFrom(i) == dec.outcome # "none" /\ hist[i].ret # NoValue /\ dec.s = hist[i].ret

(***************************************************************************)
(* C1: for every call of uuid6 whose tick value fits in 60 bits, whatever  *)
(* the seed, the seq and the prior Sequence State, the timestamp value     *)
(* that uuid6_to_datetime reassembles from the returned identifier is the  *)
(* time_val that uuid6 embedded.                                           *)
(***************************************************************************)
C1_TickRoundTrip ==
    \A i \in Calls :
        (DecodedFrom(i) /\ Fits60(hist[i].time_val))
        => dec.outcome = "datetime" /\ dec.time_val = hist[i].time_val

\* the dashed string of a call that derived its sequence from a stored
\* 16383 is decoded, its tick having bits set in time_low and in time_high
C1_Witness ==
    \E i \in Calls :
        /\ DecodedFrom(i) /\ Fits60(hist[i].time_val)
        /\ hist[i].fmt = "str" /\ IsNone(hist[i].seq)
        /\ hist[i].pre_seq = Some(16383)
        /\ BitAnd(hist[i].time_val, <<4095>>) # <<>>
        /\ Shr(hist[i].time_val, 44) # <<>>
        /\ dec.time_val = hist[i].time_val

(***************************************************************************)
(* C5: every identifier returned by uuid6 for a tick value that fits in    *)
(* 60 bits has version digit 6 (bits 76-79), so that uuid6_to_datetime     *)
(* does not take its version-mismatch branch on it.                        *)
(***************************************************************************)
C5_VersionSix ==
    \A i \in Calls :
        (Ok(i) /\ Fits60(hist[i].time_val))
        => /\ VersionDigit(hist[i].ret) = 6
           /\ \A b \in BOOLEAN : DecodeOutcome(ToInt(hist[i].ret), b) = "datetime"

\* a plain hex identifier of tick 0, whose version digit follows twelve
\* zeros, made from a stored sequence of 16383
C5_Witness ==
    \E i \in Calls :
        /\ Ok(i) /\ hist[i].time_val = <<>> /\ hist[i].fmt = "hex"
        /\ hist[i].pre_seq = Some(16383)
        /\ SubSeq(hist[i].ret.str, 1, 13)
              = <<"0", "0", "0", "0", "0", "0", "0", "0", "0", "0", "0", "0", "6">>

(***************************************************************************)
(* C7: for a value whose version digit is not 6, uuid6_to_datetime returns *)
(* None when suppress_uuid_version_error is true and raises the version    *)
(* error when it is false, and never a timestamp; for a value whose        *)
(* version digit is 6 it does neither.                                     *)
(***************************************************************************)
C7_StrictDecode ==
    dec.outcome # "none"
    => IF VersionDigit(dec.s) # 6
       THEN dec.outcome = (IF dec.suppress THEN "None" ELSE "ValueError")
       ELSE dec.outcome = "datetime"

\* a version 4 string was refused by raising after an encoder output had
\* been made
C7_Witness ==
    /\ dec.s = V4Str /\ ~dec.suppress /\ dec.outcome = "ValueError"
    /\ \E i \in Calls : Ok(i)

(***************************************************************************)
(* C10 (as stated): a call whose as_of is not recognized raises, returns   *)
(* nothing and leaves the Sequence State unchanged, even with seq          *)
(* supplied; every call with a recognized as_of succeeds.                  *)
(***************************************************************************)
InvalidAsOfRaises(i) ==
    ~AsOfRecognized(hist[i].as_of)
    => /\ hist[i].exc = "Unexpected value for as_of"
       /\ hist[i].ret = NoValue
       /\ hist[i].post_time = hist[i].pre_time
       /\ hist[i].post_seq = hist[i].pre_seq
       /\ (i = Len(hist) => /\ last_uuid_v6_time = hist[i].pre_time
                            /\ last_uuid_v6_seq = hist[i].pre_seq)

C10_InvalidAsOf ==
    \A i \in Calls :
        /\ InvalidAsOfRaises(i)
        /\ AsOfRecognized(hist[i].as_of) => Ok(i)

(***************************************************************************)
(* C10 (amended): ... every call with a recognized as_of whose tick value  *)
(* fits in 60 bits succeeds (with fmt 'uuid' and a larger tick value,      *)
(* uuid.UUID raises ValueError after the Sequence State has been updated). *)
(***************************************************************************)
C10_InvalidAsOfFits60 ==
    \A i \in Calls :
        /\ InvalidAsOfRaises(i)
        /\ (AsOfRecognized(hist[i].as_of) /\ Fits60(hist[i].time_val)) => Ok(i)

\* a call with an unrecognized as_of and seq supplied, made when the
\* stored sequence was another value
C10_Witness ==
    \E i \in Calls :
        /\ ~AsOfRecognized(hist[i].as_of)
        /\ Supplied(hist[i].seq) /\ hist[i].seq # hist[i].pre_seq
        /\ i = Len(hist)
        /\ last_uuid_v6_seq = hist[i].pre_seq

(***************************************************************************)
(* test_uuid6, lines 126-148, one step per statement, run after at most    *)
(* MaxPriorCalls other calls of uuid6                                      *)
(***************************************************************************)
MaxPriorCalls == 1

\* datetime.now(tz=utc): 2020-11-10T02:41:42.182162Z, and
\* 1970-01-01T00:00:00Z, the clock of a machine whose clock was never set
D1970 == AsOf("datetime", Pos(<<>>))
TestNows  == {D2020, D1970}
TestSeeds == {Node1, <<>>}           \* random.getrandbits(48)
TestSeqs  == {0, 5, 16383}           \* random.getrandbits(14)

\* uuid.UUID.hex and str(uuid.UUID), lines 143-144
UUIDHex(u) == Hex032(u.int)
UUIDStr(u) == Dashed(Hex032(u.int))

\* the call uuid6(fmt, now, seed, seq) of lines 132-135
TestCall(fmt) ==
    Uuid6Record(fmt, test.now, Some(test.seed), Some(test.seq), Pos(<<>>), 0, <<>>)

\* lines 128-130
TestStart ==
    /\ test.pc = "idle"
    /\ \E now \in TestNows, seed \in TestSeeds, seq \in TestSeqs :
         test' = [test EXCEPT !.pc = "out1", !.now = now, !.seed = seed, !.seq = seq]
    /\ UNCHANGED <<last_uuid_v6_time, last_uuid_v6_seq, hist, dec, concvars>>

\* line 132
TestOut1 ==
    /\ test.pc = "out1"
    /\ Uuid6Effect(TestCall("int"))
    /\ test' = [test EXCEPT !.pc = "out2", !.out1 = TestCall("int").ret]
    /\ UNCHANGED <<dec, concvars>>

\* line 133
TestOut2 ==
    /\ test.pc = "out2"
    /\ Uuid6Effect(TestCall("hex"))
    /\ test' = [test EXCEPT !.pc = "out3", !.out2 = TestCall("hex").ret]
    /\ UNCHANGED <<dec, concvars>>

\* line 134
TestOut3 ==
    /\ test.pc = "out3"
    /\ Uuid6Effect(TestCall("str"))
    /\ test' = [test EXCEPT !.pc = "out4", !.out3 = TestCall("str").ret]
    /\ UNCHANGED <<dec, concvars>>

\* line 135; uuid.UUID raising ends the test
TestOut4 ==
    /\ test.pc = "out4"
    /\ Uuid6Effect(TestCall("uuid"))
    /\ test' = [test EXCEPT
                  !.pc = IF TestCall("uuid").ret = NoValue THEN "raised" ELSE "asserts",
                  !.out4 = TestCall("uuid").ret]
    /\ UNCHANGED <<dec, concvars>>

\* lines 142-144
TestAsserts ==
    /\ test.pc = "asserts"
    /\ LET ok == /\ test.out4.int = test.out1.int
                 /\ UUIDHex(test.out4) = test.out2.str
                 /\ UUIDStr(test.out4) = test.out3.str
       IN  test' = [test EXCEPT !.pc = IF ok THEN "decode" ELSE "raised",
                                !.asserts = IF ok THEN "passed" ELSE "AssertionError"]
    /\ UNCHANGED <<last_uuid_v6_time, last_uuid_v6_seq, hist, dec, concvars>>

\* line 148: the call uuid6_to_datetime(out4)
TestDecode ==
    /\ test.pc = "decode"
    /\ dec' = Uuid6ToDatetimeRecord(test.out4, TRUE)
    /\ test' = [test EXCEPT !.pc = "done"]
    /\ UNCHANGED <<last_uuid_v6_time, last_uuid_v6_seq, hist, concvars>>

Uuid6Prior == Uuid6Step({"str"}, {F0, FTop}, {None}, {None, Some(16383)}, MaxPriorCalls)

NextTest == \/ Uuid6Prior
            \/ TestStart \/ TestOut1 \/ TestOut2 \/ TestOut3 \/ TestOut4
            \/ TestAsserts \/ TestDecode

SpecTest == Init /\ [][NextTest]_vars

(***************************************************************************)
(* C6: four successive calls with identical as_of, seed and explicit seq   *)
(* and fmt 'int', 'hex', 'str', 'uuid' return four representations of one  *)
(* 128-bit value: the 32-digit hex string and the 8-4-4-4-12 dashed string *)
(* parse back to the integer and the UUID object's int equals it, although *)
(* each call rewrites the Sequence State.                                  *)
(***************************************************************************)
DashPositions(s) == {i \in 1..Len(s) : s[i] = "-"}

ConcAsOfs == {F0, F100}
ConcSeed  == Some(Node1)

InitConc ==
    /\ \E p \in PriorStates : last_uuid_v6_time = p[1] /\ last_uuid_v6_seq = p[2]
    /\ hist = <<>>
    /\ dec = NoDec
    /\ test = NoTest
    /\ thr = NoThreads
    /\ serialized \in BOOLEAN

MayRun(t) ==
    serialized => \A u \in Threads \ {t} : thr[u].pc \in {"idle", "done"}

\* variant: a strict comparison
NotAdvancedStrict(time_val, last_time) == Lt(time_val, last_time)

\* line 65: time_val <= _last_uuid_v6_time
NotAdvanced(time_val, last_time) == Le(time_val, last_time)

\* lines 51-61: the call is entered, time_val computed, seq found None
ThreadCall(t) ==
    /\ thr[t].pc = "idle" /\ MayRun(t)
    /\ \E as_of \in ConcAsOfs :
         thr' = [thr EXCEPT ![t] = [@ EXCEPT !.pc = "l63", !.as_of = as_of,
                                              !.time_val = TimeVal(as_of.ns)]]
    /\ UNCHANGED <<last_uuid_v6_time, last_uuid_v6_seq, hist, dec, test, serialized>>

\* lines 63-64: _last_uuid_v6_seq is read and tested for None
ThreadTestNone(t) ==
    /\ thr[t].pc = "l63" /\ MayRun(t)
    /\ IF IsNone(last_uuid_v6_seq)
       THEN /\ \E rand14 \in Rand14Values : last_uuid_v6_seq' = Some(rand14)
            /\ thr' = [thr EXCEPT ![t].pc = "l68"]
       ELSE /\ thr' = [thr EXCEPT ![t].pc = "l65"]
            /\ UNCHANGED last_uuid_v6_seq
    /\ UNCHANGED <<last_uuid_v6_time, hist, dec, test, serialized>>

\* line 65: _last_uuid_v6_time is read and compared
ThreadCompare(t) ==
    /\ thr[t].pc = "l65" /\ MayRun(t)
    /\ thr' = [thr EXCEPT ![t].pc =
                  IF NotAdvanced(thr[t].time_val, last_uuid_v6_time)
                  THEN "l66" ELSE "l68"]
    /\ UNCHANGED <<last_uuid_v6_time, last_uuid_v6_seq, hist, dec, test, serialized>>

\* line 66, first half: _last_uuid_v6_seq is loaded
ThreadLoad(t) ==
    /\ thr[t].pc = "l66" /\ MayRun(t)
    /\ thr' = [thr EXCEPT ![t] = [@ EXCEPT !.pc = "l66store",
                                           !.loaded = Val(last_uuid_v6_seq)]]
    /\ UNCHANGED <<last_uuid_v6_time, last_uuid_v6_seq, hist, dec, test, serialized>>

\* line 66, second half: the loaded value plus 1 is stored
ThreadStore(t) ==
    /\ thr[t].pc = "l66store" /\ MayRun(t)
    /\ last_uuid_v6_seq' = Some(thr[t].loaded + 1)
    /\ thr' = [thr EXCEPT ![t].pc = "l68"]
    /\ UNCHANGED <<last_uuid_v6_time, hist, dec, test, serialized>>

\* line 68
ThreadSetTime(t) ==
    /\ thr[t].pc = "l68" /\ MayRun(t)
    /\ last_uuid_v6_time' = thr[t].time_val
    /\ thr' = [thr EXCEPT ![t].pc = "l77"]
    /\ UNCHANGED <<last_uuid_v6_seq, hist, dec, test, serialized>>

\* lines 70-84: _last_uuid_v6_seq is read again, the identifier is packed
\* and returned
ThreadPack(t) ==
    /\ thr[t].pc = "l77" /\ MayRun(t)
    /\ thr' = [thr EXCEPT ![t] = [@ EXCEPT !.pc = "done",
                  !.int_val = Pack(thr[t].time_val, Val(last_uuid_v6_seq),
                                   NodeOf(ConcSeed, <<>>))]]
    /\ UNCHANGED <<last_uuid_v6_time, last_uuid_v6_seq, hist, dec, test, serialized>>

NextConc ==
    \E t \in Threads :
        \/ ThreadCall(t) \/ ThreadTestNone(t) \/ ThreadCompare(t)
        \/ ThreadLoad(t) \/ ThreadStore(t) \/ ThreadSetTime(t) \/ ThreadPack(t)

SpecConc == InitConc /\ [][NextConc]_vars

(***************************************************************************)
(* C11: with no lock there is an interleaving of two uuid6 calls (seq not  *)
(* supplied, same seed) after which both have embedded the same tick and   *)
(* returned the same sequence field (C11_Witness is that state); when the  *)
(* two calls are serialized, no such state is reachable.                   *)
(***************************************************************************)
BothReturned == \A t \in Threads : thr[t].pc = "done"

SameTickSameSeq ==
    /\ BothReturned
    /\ thr[1].time_val = thr[2].time_val
    /\ SeqFieldOf(thr[1].int_val) = SeqFieldOf(thr[2].int_val)

C11_SerializedDistinct == serialized => ~SameTickSameSeq

\* unserialized, both calls incremented the stored sequence and both
\* returned one and the same identifier
C11_Witness ==
    /\ ~serialized /\ SameTickSameSeq
    /\ thr[1].int_val = thr[2].int_val
    /\ last_uuid_v6_seq = Some(16384)

(***************************************************************************)
(* SpecWide: uuid6 calls returning integers, from either prior Sequence    *)
(* State, with ticks from 0 to just below 2^60, a seed wider than 48 bits  *)
(* and a seq wider than 14 bits                                            *)
(***************************************************************************)
MaxWideCalls == 2

WideAsOfs == {FGreg, D2020, FTop}
WideSeeds == {None, Some(SeedWide)}
WideSeqs  == {None, Some(20000)}

Uuid6Wide == Uuid6Step({"int"}, WideAsOfs, WideSeeds, WideSeqs, MaxWideCalls)

NextWide == Uuid6Wide

SpecWide == InitDec /\ [][NextWide]_vars

(***************************************************************************)
(* C12: for a tick value t in [0, 2^60), effective sequence s and node n,  *)
(* the integer of uuid6 is (t >> 12) * 2^80 + 6 * 2^76 + (t mod 2^12) *    *)
(* 2^64 + 2 * 2^62 + (s mod 2^14) * 2^48 + (n mod 2^48).  The sum is       *)
(* written down limb by limb: 2^48, 2^64 and 2^80 are limb boundaries, the *)
(* limb of weight 2^48 holds variant and sequence, the limb of weight 2^64 *)
(* holds version and t mod 2^12.                                           *)
(***************************************************************************)
Limbs3(x) == <<Limb(x, 1), Limb(x, 2), Limb(x, 3)>>

LayoutSum(t, s, n) ==
    Norm(Limbs3(n)
         \o <<2 * 16384 + (s % 16384)>>
         \o <<6 * 4096 + ModSmall(t, 4096)>>
         \o Limbs3(DivSmall(t, 4096)))

\* the node of call i: the seed given, or else a value the generator drew
NodesOf(i) == IF Supplied(hist[i].seed) THEN {Val(hist[i].seed)} ELSE Rand48Values

C12_BitLayout ==
    \A i \in Calls :
        (Ok(i) /\ Fits60(hist[i].time_val))
        => /\ \E n \in NodesOf(i) :
                hist[i].int_val = LayoutSum(hist[i].time_val, Val(hist[i].post_seq), n)
           /\ hist[i].fmt = "int" => hist[i].ret = PyInt(hist[i].int_val)

\* an integer identifier of a tick near 2^60, with a seed wider than 48
\* bits and a derived sequence of 16384
C12_Witness ==
    \E i \in Calls :
        /\ Ok(i) /\ hist[i].fmt = "int"
        /\ hist[i].time_val = TimeVal(FTop.ns)
        /\ hist[i].seed = Some(SeedWide)
        /\ IsNone(hist[i].seq) /\ hist[i].post_seq = Some(16384)
        /\ hist[i].ret.int = LayoutSum(hist[i].time_val, 0, Node2)

(***************************************************************************)
(* C13: the Sequence State starts unset, and the first uuid6 call of the   *)
(* process without seq picks a fresh random 14-bit sequence.  In the code  *)
(* the random choice of line 64 is made exactly when the call finds the    *)
(* stored sequence unset (line 63), so the claim says that the first call  *)
(* without seq finds it unset and stores a value of the generator.         *)
(* Line 18 sets the stored sequence to 0 at import: the first call finds   *)
(* 0, keeps it (or adds one when the tick is not above 0), and the first   *)
(* sequence field is fixed.                                                *)
(***************************************************************************)
C13_FirstCallRandom ==
    (Len(hist) >= 1 /\ Ok(1) /\ IsNone(hist[1].seq))
    => /\ IsNone(hist[1].pre_seq)
       /\ \E r \in Rand14Values : hist[1].post_seq = Some(r)

(***************************************************************************)
(* C14: a uuid6 call without seq whose tick value is strictly greater than *)
(* the stored last-seen timestamp leaves the stored sequence unchanged and *)
(* its identifier carries the sequence of the previous call; the stored    *)
(* sequence changes only when seq is supplied or the tick value is less    *)
(* than or equal to the last-seen timestamp.                               *)
(***************************************************************************)
Advances(i) == IsNone(hist[i].seq) /\ Lt(hist[i].pre_time, hist[i].time_val)

C14_ReuseOnAdvance ==
    \A i \in Calls :
        Ok(i)
        => /\ Advances(i)
              => /\ hist[i].post_seq = hist[i].pre_seq
                 /\ SeqFieldOf(hist[i].int_val) = Val(hist[i].pre_seq) % 16384
                 /\ (i > 1 /\ Ok(i - 1))
                    => SeqFieldOf(hist[i].int_val) = SeqFieldOf(hist[i - 1].int_val)
           /\ hist[i].post_seq # hist[i].pre_seq
              => \/ Supplied(hist[i].seq)
                 \/ Le(hist[i].time_val, hist[i].pre_time)

\* a call without seq on a later tick, after a call that was given 16383
C14_Witness ==
    \E i \in Calls :
        /\ i > 1 /\ Ok(i) /\ Ok(i - 1) /\ Advances(i)
        /\ hist[i - 1].seq = Some(16383)
        /\ hist[i].post_seq = Some(16383)
        /\ SeqFieldOf(hist[i].int_val) = 16383

(***************************************************************************)
(* C15: after every successful uuid6 call the stored last-seen timestamp   *)
(* is the tick value of that call, also when seq was supplied and also     *)
(* when the tick value is smaller than the one stored before.              *)
(***************************************************************************)
LastCall == hist[Len(hist)]

C15_LastSeenIsLatest ==
    /\ \A i \in Calls : Ok(i) => hist[i].post_time = hist[i].time_val
    /\ (Len(hist) > 0 /\ LastCall.exc = "none")
       => last_uuid_v6_time = LastCall.time_val

\* the latest call was given a seq and an earlier instant than the call
\* before it
C15_Witness ==
    /\ Len(hist) > 1 /\ LastCall.exc = "none"
    /\ Supplied(LastCall.seq)
    /\ Lt(LastCall.time_val, LastCall.pre_time)
    /\ last_uuid_v6_time = LastCall.time_val
    /\ last_uuid_v6_time # hist[Len(hist) - 1].time_val

(***************************************************************************)
(* C16: in every reachable Sequence State the stored sequence counter is a *)
(* 14-bit unsigned integer, in 0..16383, wrapping to 0 after 16383.        *)
(***************************************************************************)
C16_StoredSeqRange ==
    /\ Supplied(last_uuid_v6_seq)
    /\ Val(last_uuid_v6_seq) \in 0..16383

(***************************************************************************)
(* C16, amended: the stored counter is not reduced (it is the seq given,   *)
(* or one more than before); the 14-bit sequence field of every identifier *)
(* is the stored counter modulo 2^14, directly below the variant bits 10,  *)
(* and is 0 on the call that steps the counter from 16383.                 *)
(***************************************************************************)
Derived(i) == IsNone(hist[i].seq) /\ Le(hist[i].time_val, hist[i].pre_time)

C16_SeqFieldRange ==
    \A i \in Calls :
        Ok(i)
        => /\ Supplied(hist[i].seq) => hist[i].post_seq = hist[i].seq
           /\ Derived(i) => Val(hist[i].post_seq) = Val(hist[i].pre_seq) + 1
           /\ Limb(hist[i].int_val, 4) = 2 * 16384 + (Val(hist[i].post_seq) % 16384)
           /\ (Derived(i) /\ Val(hist[i].pre_seq) = 16383)
              => SeqFieldOf(hist[i].int_val) = 0

\* the counter stepped from 16383 to 16384 and the identifier carries 0
C16_Witness ==
    \E i \in Calls :
        /\ Ok(i) /\ Derived(i)
        /\ hist[i].pre_seq = Some(16383)
        /\ i = Len(hist) /\ last_uuid_v6_seq = Some(16384)
        /\ SeqFieldOf(hist[i].int_val) = 0

(***************************************************************************)
(* C17: for a tick value that fits in 60 bits and any seq and seed, also   *)
(* wider than 14 and 48 bits, and a stored sequence stepped past 16383,    *)
(* the integer lies in [0, 2^128), and it is the integer of seq mod 2^14   *)
(* and seed mod 2^48, field by field: version 6, variant 2, the tick       *)
(* itself in the timestamp fields, seq mod 2^14 in the sequence field and  *)
(* seed mod 2^48 in the node field (no carry from the sequence into the    *)
(* variant or from the node into the sequence).                            *)
(***************************************************************************)
ReducedNodesOf(i) == {BitAnd(n, Mask48) : n \in NodesOf(i)}

C17_NoFieldOverflow ==
    \A i \in Calls :
        (hist[i].exc # "Unexpected value for as_of" /\ Fits60(hist[i].time_val))
        => /\ UUIDInRange(hist[i].int_val)
           /\ Ok(i)
           /\ VersionOf(hist[i].int_val) = 6
           /\ VariantOf(hist[i].int_val) = 2
           /\ DecodedTimeVal(hist[i].int_val) = hist[i].time_val
           /\ SeqFieldOf(hist[i].int_val) = Val(hist[i].post_seq) % 16384
           /\ NodeFieldOf(hist[i].int_val) \in ReducedNodesOf(i)

\* an identifier of the highest tick modelled, made from a seed of 49 bits
\* and a sequence above 16383
C17_Witness ==
    \E i \in Calls :
        /\ Ok(i) /\ hist[i].ret = PyInt(hist[i].int_val)
        /\ hist[i].time_val = TimeVal(FTop.ns)
        /\ hist[i].seed = Some(SeedWide) /\ Len(SeedWide) > 3
        /\ Val(hist[i].post_seq) > 16383
        /\ NodeFieldOf(hist[i].int_val) = Node2

(***************************************************************************)
(* C18: in a sequence of uuid6 calls with one fixed seed and seq never     *)
(* supplied, whose instants go forwards, backwards or repeat, the          *)
(* identifiers are pairwise distinct as long as the stored sequence has    *)
(* been incremented fewer than 2^14 times, and between two calls of the    *)
(* same tick the stored sequence is incremented at least once.  Stated for *)
(* every stretch of calls i+1..j made without seq, whatever the Sequence   *)
(* State the stretch starts from.                                          *)
(***************************************************************************)
IncrementsBetween(i, j) == Val(hist[j].post_seq) - Val(hist[i].post_seq)

C18_DistinctWithoutSeq ==
    \A i, j \in Calls :
        (i < j /\ Ok(i) /\ Ok(j) /\ NoSeqBetween(i, j) /\ SameSeed(i, j))
        => /\ IncrementsBetween(i, j) >= 0
           /\ SameTick(i, j) => IncrementsBetween(i, j) >= 1
           /\ IncrementsBetween(i, j) < 16384
              => /\ hist[i].int_val # hist[j].int_val
                 /\ hist[i].ret # hist[j].ret

\* three calls without seq at a later, an earlier and again the later
\* instant: one increment, three distinct identifiers
C18_Witness ==
    /\ Len(hist) = 3
    /\ \A k \in Calls : Ok(k) /\ IsNone(hist[k].seq) /\ hist[k].seed = Some(Node1)
    /\ hist[1].as_of = F100 /\ hist[2].as_of = F0 /\ hist[3].as_of = F100
    /\ IncrementsBetween(1, 3) = 1
    /\ hist[1].int_val # hist[3].int_val
    /\ hist[1].int_val # hist[2].int_val /\ hist[2].int_val # hist[3].int_val

(***************************************************************************)
(* SpecMix: uuid6 calls from the state after import with uuid6_to_datetime *)
(* calls anywhere between them                                             *)
(***************************************************************************)
MaxMixCalls == 2

MixAsOfs == {F0, F100}
MixSeqs  == {None, Some(16383)}

Uuid6Mix == Uuid6Step({"hex"}, MixAsOfs, {Some(Node1)}, MixSeqs, MaxMixCalls)

Uuid6ToDatetimeMix == Uuid6ToDatetimeStep({V4Str})

NextMix == Uuid6Mix \/ Uuid6ToDatetimeMix

SpecMix == Init /\ [][NextMix]_vars

(***************************************************************************)
(* C19: uuid6_to_datetime, whatever its outcome, leaves the Sequence State *)
(* and the identifiers already returned as they are, and with decoder      *)
(* calls anywhere between uuid6 calls every uuid6 call starts from the     *)
(* Sequence State the uuid6 call before it left (the import state for the  *)
(* first), so it returns what it returns without them.                     *)
(***************************************************************************)
SeqStateOf(c) == <<c.post_time, c.post_seq>>

StateLeftBefore(i) == IF i = 1 THEN <<<<>>, Some(0)>> ELSE SeqStateOf(hist[i - 1])

SeqStateFromUuid6Only ==
    /\ <<last_uuid_v6_time, last_uuid_v6_seq>> = StateLeftBefore(Len(hist) + 1)
    /\ \A i \in Calls : <<hist[i].pre_time, hist[i].pre_seq>> = StateLeftBefore(i)

C19_DecoderFrame ==
    /\ [][dec' # dec => UNCHANGED <<last_uuid_v6_time, last_uuid_v6_seq, hist>>]_vars
    /\ []SeqStateFromUuid6Only

\* two identifiers made, the first of them decoded, and the Sequence State
\* stands where the second uuid6 call left it
C19_Witness ==
    /\ Len(hist) = 2 /\ Ok(1) /\ Ok(2)
    /\ dec.outcome = "datetime" /\ dec.s = hist[1].ret /\ dec.s # hist[2].ret
    /\ <<last_uuid_v6_time, last_uuid_v6_seq>> = SeqStateOf(LastCall)
====
